---- MODULE Spec2Model ----
(***************************************************************************)
(* Model of the SQLite query service (src/sql_mcp.py) and of the CSV       *)
(* loader (src/load_csv_to_sqlite.py).                                     *)
(*                                                                         *)
(* Text is a sequence of string atoms.  Text supplied by a caller          *)
(* (table_name, query, CSV header names) is one character per atom; the    *)
(* literal parts of an f-string are one atom each, so that an f-string is  *)
(* the concatenation (\o) of its literal atoms and its interpolated text.  *)
(***************************************************************************)
EXTENDS Integers, Sequences, FiniteSets, TLC

\* ------------------------------------------------------------- bounds
MaxCalls == 2
MaxRows == 1
MaxWidth == 2
MaxLines == 2

Slots == {"c1", "c2"}

\* ------------------------------------------------------------- text helpers
LowerCase == <<"a","b","c","d","e","f","g","h","i","j","k","l","m",
               "n","o","p","q","r","s","t","u","v","w","x","y","z">>
UpperCase == <<"A","B","C","D","E","F","G","H","I","J","K","L","M",
               "N","O","P","Q","R","S","T","U","V","W","X","Y","Z">>

IsLower(c) == \E i \in 1..Len(LowerCase) : LowerCase[i] = c
IsUpperLetter(c) == \E i \in 1..Len(UpperCase) : UpperCase[i] = c
IsSpace(c) == c \in {" ", "\n", "\t"}
IsIdentChar(c) == IsLower(c) \/ IsUpperLetter(c) \/ c = "_"

\* str.upper(), character by character
UpperChar(c) ==
    IF IsLower(c)
    THEN UpperCase[CHOOSE i \in 1..Len(LowerCase) : LowerCase[i] = c]
    ELSE c
Upper(t) == [i \in 1..Len(t) |-> UpperChar(t[i])]

RECURSIVE LStrip(_)
LStrip(t) ==
    IF t = <<>> THEN t
    ELSE IF IsSpace(Head(t)) THEN LStrip(Tail(t)) ELSE t

RECURSIVE RStrip(_)
RStrip(t) ==
    IF t = <<>> THEN t
    ELSE IF IsSpace(t[Len(t)]) THEN RStrip(SubSeq(t, 1, Len(t) - 1)) ELSE t

\* str.strip()
Strip(t) == RStrip(LStrip(t))

\* str.startswith(p)
StartsWith(t, p) == Len(t) >= Len(p) /\ SubSeq(t, 1, Len(p)) = p

Drop(t, n) == SubSeq(t, n + 1, Len(t))

\* p occurs in t as a contiguous piece ("p in t")
Contains(t, p) ==
    \E i \in 0..(Len(t) - Len(p)) : SubSeq(t, i + 1, i + Len(p)) = p

\* index of the first occurrence of atom c in t, 0 when there is none
IndexOf(t, c) ==
    IF \E i \in 1..Len(t) : t[i] = c
    THEN CHOOSE i \in 1..Len(t) : t[i] = c /\ \A j \in 1..(i - 1) : t[j] # c
    ELSE 0

\* whitespace-separated words of t
RECURSIVE Words(_)
Words(t) ==
    LET s == LStrip(t)
    IN IF s = <<>> THEN <<>>
       ELSE LET stops == {i \in 1..Len(s) : IsSpace(s[i])}
                n == IF stops = {} THEN Len(s)
                     ELSE (CHOOSE i \in stops : \A j \in stops : i <= j) - 1
            IN <<SubSeq(s, 1, n)>> \o Words(Drop(s, n))

IsIdent(t) == t # <<>> /\ \A i \in 1..Len(t) : IsIdentChar(t[i])

Join(parts, sep) ==
    LET RECURSIVE J(_)
        J(k) == IF k > Len(parts) THEN <<>>
                ELSE IF k = Len(parts) THEN parts[k]
                ELSE parts[k] \o sep \o J(k + 1)
    IN J(1)

\* ------------------------------------------------------------- the store
\* One column of a table, as PRAGMA table_info reports it.
ColumnDef(name, type, notnull, pk) ==
    [name |-> name, type |-> type, notnull |-> notnull,
     dflt_value |-> "NULL", pk |-> pk]

TableT(n) ==
    [cols |-> <<ColumnDef("a", "TEXT", 0, 0), ColumnDef("b", "TEXT", 0, 0)>>,
     rows |-> [i \in 1..n |-> <<"x", "y">>]]
TableU ==
    [cols |-> <<ColumnDef("id", "INTEGER", 1, 1)>>, rows |-> <<>>]

NoTables == [n \in {} |-> TableU]

\* The database file at db_path: whether it can be opened, and its tables.
Stores ==
    {[reachable |-> FALSE, tables |-> NoTables],
     [reachable |-> TRUE, tables |-> NoTables]}
    \cup {[reachable |-> TRUE,
           tables |-> [n \in {<<"u">>, <<"t">>} |->
                          IF n = <<"t">> THEN TableT(k) ELSE TableU]]
          : k \in 0..MaxRows}

\* Outcome of a call into sqlite3: the rows fetched, or the exception raised.
Rows(rows) == [kind |-> "rows", rows |-> rows, exc |-> "", msg |-> <<>>]
Raise(exc, msg) == [kind |-> "exc", rows |-> <<>>, exc |-> exc, msg |-> msg]
NoOutcome == [kind |-> "none", rows |-> <<>>, exc |-> "", msg |-> <<>>]

\* Binary collation of two texts of lower-case letters (ORDER BY name).
Ord(c) == IF IsLower(c) THEN CHOOSE i \in 1..Len(LowerCase) : LowerCase[i] = c
          ELSE 0
RECURSIVE TextLess(_, _)
TextLess(a, b) ==
    IF b = <<>> THEN FALSE
    ELSE IF a = <<>> THEN TRUE
    ELSE IF Head(a) = Head(b) THEN TextLess(Tail(a), Tail(b))
    ELSE Ord(Head(a)) < Ord(Head(b))

RECURSIVE SortedTexts(_)
SortedTexts(S) ==
    IF S = {} THEN <<>>
    ELSE LET m == CHOOSE x \in S : \A y \in S \ {x} : TextLess(x, y)
         IN <<m>> \o SortedTexts(S \ {m})

\* SQLite resolves table names case-insensitively.
Resolve(tables, name) == {n \in DOMAIN tables : Upper(n) = Upper(name)}

\* The SQL texts the service writes itself (literal atoms).
ListTablesSql ==
    <<"SELECT name FROM sqlite_master WHERE type='table' ORDER BY name">>
PragmaHead == "PRAGMA table_info("

kwSELECT == <<"S","E","L","E","C","T">>
kwFROM == <<"F","R","O","M">>
kwDELETE == <<"D","E","L","E","T","E">>
kwCOUNT == <<"C","O","U","N","T","(","*",")">>

SyntaxError == [kind |-> "syntax", table |-> <<>>]

\* The text up to a "--" line comment.
CutComment(t) ==
    LET at == {i \in 1..(Len(t) - 1) : t[i] = "-" /\ t[i + 1] = "-"}
    IN IF at = {} THEN t
       ELSE SubSeq(t, 1, (CHOOSE i \in at : \A j \in at : i <= j) - 1)

\* sqlite3_prepare of one statement: the statement it compiles to.
ParseStatement(sql) ==
    IF sql = ListTablesSql THEN [kind |-> "list", table |-> <<>>]
    ELSE IF sql # <<>> /\ Head(sql) = PragmaHead
    THEN LET w == Words(Tail(sql))
         IN IF Len(w) = 1 /\ w[1][Len(w[1])] = ")"
               /\ IsIdent(SubSeq(w[1], 1, Len(w[1]) - 1))
            THEN [kind |-> "pragma", table |-> SubSeq(w[1], 1, Len(w[1]) - 1)]
            ELSE SyntaxError
    ELSE LET w == Words(sql)
         IN IF Len(w) = 4 /\ Upper(w[1]) = kwSELECT /\ w[2] = <<"*">>
               /\ Upper(w[3]) = kwFROM /\ IsIdent(w[4])
            THEN [kind |-> "select_all", table |-> w[4]]
            ELSE IF Len(w) = 4 /\ Upper(w[1]) = kwSELECT /\ Upper(w[2]) = kwCOUNT
               /\ Upper(w[3]) = kwFROM /\ IsIdent(w[4])
            THEN [kind |-> "count", table |-> w[4]]
            ELSE IF Len(w) = 3 /\ Upper(w[1]) = kwDELETE
               /\ Upper(w[2]) = kwFROM /\ IsIdent(w[3])
            THEN [kind |-> "delete", table |-> w[3]]
            ELSE SyntaxError

RowDict(cols, values) ==
    [c \in {cols[i].name : i \in 1..Len(cols)} |->
        values[CHOOSE i \in 1..Len(cols) : cols[i].name = c]]

\* Running a compiled statement on the connection's view of the tables:
\* the outcome and the view afterwards.
RunStatement(stmt, tables) ==
    LET hit == Resolve(tables, stmt.table)
        tbl == tables[CHOOSE n \in hit : TRUE]
        missing == [out |-> Raise("OperationalError",
                                  <<"no such table: ">> \o stmt.table),
                    view |-> tables]
    IN CASE stmt.kind = "list" ->
              LET names == SortedTexts(DOMAIN tables)
              IN [out |-> Rows([i \in 1..Len(names) |-> [name |-> names[i]]]),
                  view |-> tables]
         [] stmt.kind = "pragma" ->
              IF hit = {} THEN [out |-> Rows(<<>>), view |-> tables]
              ELSE [out |-> Rows([i \in 1..Len(tbl.cols) |->
                               [cid |-> i - 1, name |-> tbl.cols[i].name,
                                type |-> tbl.cols[i].type,
                                notnull |-> tbl.cols[i].notnull,
                                dflt_value |-> tbl.cols[i].dflt_value,
                                pk |-> tbl.cols[i].pk]]),
                    view |-> tables]
         [] stmt.kind = "select_all" ->
              IF hit = {} THEN missing
              ELSE [out |-> Rows([i \in 1..Len(tbl.rows) |->
                                     RowDict(tbl.cols, tbl.rows[i])]),
                    view |-> tables]
         [] stmt.kind = "count" ->
              IF hit = {} THEN missing
              ELSE [out |-> Rows(<<[count |-> Len(tbl.rows)]>>), view |-> tables]
         [] stmt.kind = "delete" ->
              IF hit = {} THEN missing
              ELSE [out |-> Rows(<<>>),
                    view |-> [n \in DOMAIN tables |->
                                 IF n \in hit
                                 THEN [tables[n] EXCEPT !.rows = <<>>]
                                 ELSE tables[n]]]
         [] OTHER ->
              [out |-> Raise("OperationalError", <<"syntax error">>),
               view |-> tables]

\* cursor.execute(query) followed by cursor.fetchall(): the first statement
\* is compiled; text after its ";" is refused; then the statement runs.
CursorExecute(sql, tables) ==
    LET body == CutComment(sql)
        semi == IndexOf(body, ";")
        first == IF semi = 0 THEN body ELSE SubSeq(body, 1, semi - 1)
        rest == IF semi = 0 THEN <<>> ELSE Drop(body, semi)
        stmt == ParseStatement(first)
    IN IF stmt.kind = "syntax" THEN RunStatement(stmt, tables)
       ELSE IF Strip(rest) # <<>>
       THEN [out |-> Raise("ProgrammingError",
                           <<"You can only execute one statement at a time.">>),
             view |-> tables]
       ELSE RunStatement(stmt, tables)

\* ------------------------------------------------------------- the tools
\* f"PRAGMA table_info({table_name})"
DescribeSql(table_name) == <<PragmaHead>> \o table_name \o <<")">>

ContainsSelect(query) == Contains(Upper(Strip(query)), kwSELECT)
AcceptsAll(query) == TRUE
\* query.strip().upper().startswith("SELECT")
IsSelectQuery(query) == StartsWith(Upper(Strip(query)), kwSELECT)

OnlySelectEnvelope ==
    [status |-> "error",
     error_message |-> <<"Only SELECT queries are allowed for this tool">>]

NoEnvelope == [status |-> "none"]

Bool(x) == x # 0

\* list_tables: the value returned for an outcome of execute_query
ListTablesEnvelope(out) ==
    IF out.kind = "rows"
    THEN [status |-> "success",
          total_tables |-> Len(out.rows),
          tables |-> [i \in 1..Len(out.rows) |-> out.rows[i].name]]
    ELSE [status |-> "error",
          error_message |-> <<"Error listing tables: ">> \o out.msg]

\* describe_table: the value returned for an outcome of execute_query
DescribeTableEnvelope(table_name, out) ==
    IF out.kind = "rows"
    THEN IF Len(out.rows) = 0
         THEN [status |-> "error",
               error_message |->
                   <<"Table '">> \o table_name \o <<"' does not exist">>]
         ELSE [status |-> "success",
               table_name |-> table_name,
               columns |-> [i \in 1..Len(out.rows) |->
                   [column_id |-> out.rows[i].cid,
                    name |-> out.rows[i].name,
                    type |-> out.rows[i].type,
                    not_null |-> Bool(out.rows[i].notnull),
                    default_value |-> out.rows[i].dflt_value,
                    primary_key |-> Bool(out.rows[i].pk)]]]
    ELSE [status |-> "error",
          error_message |-> <<"Error describing table: ">> \o out.msg]

SelectEnvelopeEchoingQuery(query, out) ==
    IF out.kind = "rows"
    THEN [status |-> "success", query |-> query,
          total_rows |-> Len(out.rows), results |-> out.rows]
    ELSE [status |-> "error", query |-> query,
          error_message |-> <<"Error executing query: ">> \o out.msg]
\* execute_select_query: the value returned for an outcome of execute_query
SelectEnvelope(query, out) ==
    IF out.kind = "rows"
    THEN [status |-> "success", query |-> query,
          total_rows |-> Len(out.rows), results |-> out.rows]
    ELSE [status |-> "error",
          error_message |-> <<"Error executing query: ">> \o out.msg]

\* The tool's code after execute_query returned or raised.
ToolEnvelope(op, arg, out) ==
    CASE op = "list_tables" -> ListTablesEnvelope(out)
      [] op = "describe_table" -> DescribeTableEnvelope(arg, out)
      [] OTHER -> SelectEnvelope(arg, out)

\* ------------------------------------------------------------- arguments
TableNames ==
    {<<"t">>,
     <<"U">>,
     <<"x">>,
     <<>>,
     <<"t",")">>,
     <<"t",")"," ","-","-">>}
Queries ==
    {<<"S","E","L","E","C","T"," ","*"," ","F","R","O","M"," ","t">>,
     <<" "," ","s","e","l","e","c","t"," ","c","o","u","n","t","(","*",")"," ","f","r","o","m"," ","t"," ">>,
     <<"S","E","L","E","C","T"," ","*"," ","F","R","O","M"," ","x">>,
     <<"D","E","L","E","T","E"," ","F","R","O","M"," ","t">>,
     <<"D","E","L","E","T","E"," ","F","R","O","M"," ","t"," ","-","-","S","E","L","E","C","T">>,
     <<"S","E","L","E","C","T"," ","*"," ","F","R","O","M"," ","t",";","D","E","L","E","T","E"," ","F","R","O","M"," ","t">>,
     <<"S","E","L","E","C","T">>}

\* ------------------------------------------------------------- state
VARIABLES
    store,     \* the database file at db_path
    store0,    \* the database file as it was when the server started
    conns,     \* the sqlite3 connections created so far, by identity
    nextId,    \* the identity of the next connection object
    calls,     \* number of tool invocations dispatched so far
    slot,      \* per in-flight request: the tool call and its position
    load       \* the loader run (load_database)

vars == <<store, store0, conns, nextId, calls, slot, load>>

IdleCall ==
    [pc |-> "idle", op |-> "none", arg |-> <<>>, sql |-> <<>>, conn |-> 0,
     execs |-> 0, out |-> NoOutcome, env |-> NoEnvelope]

NotLoading ==
    [pc |-> "off", csv |-> [readable |-> FALSE, lines |-> <<>>],
     headers |-> <<>>, cols |-> <<>>, rows |-> <<>>, next |-> 1,
     exc |-> "", count |-> 0]

Free(s) == slot[s].pc \in {"idle", "returned", "raised"}

\* ------------------------------------------------------------- execute_query
SharedConnection(n) == 1
\* sqlite3.connect(db_path) makes a new connection object on every call.
NewConnection(n) == n

LeakOnError(out) == IF out.kind = "exc" THEN "return" ELSE "closecur"
\* Both "with closing(...)" blocks run their close on every way out.
AfterExecute(out) == "closecur"

\* closing(conn): Connection.close() without commit drops uncommitted changes.
ConnectionClose(st, c) == st

CatchOperationalOnly(exc) == exc = "OperationalError"
\* the tools' "except Exception" clause: the sqlite3 errors are Exceptions
ToolCatches(exc) == exc \in {"OperationalError", "ProgrammingError"}

\* list_tables up to its call of execute_query
ListTables(s) ==
    /\ Free(s) /\ calls < MaxCalls
    /\ calls' = calls + 1
    /\ slot' = [slot EXCEPT ![s] =
                   [IdleCall EXCEPT !.pc = "connect", !.op = "list_tables",
                                    !.sql = ListTablesSql]]
    /\ UNCHANGED <<store, store0, conns, nextId, load>>

\* describe_table up to its call of execute_query
DescribeTable(s, table_name) ==
    /\ Free(s) /\ calls < MaxCalls
    /\ calls' = calls + 1
    /\ slot' = [slot EXCEPT ![s] =
                   [IdleCall EXCEPT !.pc = "connect", !.op = "describe_table",
                                    !.arg = table_name,
                                    !.sql = DescribeSql(table_name)]]
    /\ UNCHANGED <<store, store0, conns, nextId, load>>

\* execute_select_query up to its call of execute_query, or its rejection
ExecuteSelectQuery(s, query) ==
    /\ Free(s) /\ calls < MaxCalls
    /\ calls' = calls + 1
    /\ slot' = [slot EXCEPT ![s] =
                   IF IsSelectQuery(query)
                   THEN [IdleCall EXCEPT !.pc = "connect",
                                         !.op = "execute_select_query",
                                         !.arg = query, !.sql = query]
                   ELSE [IdleCall EXCEPT !.pc = "returned",
                                         !.op = "execute_select_query",
                                         !.arg = query,
                                         !.env = OnlySelectEnvelope]]
    /\ UNCHANGED <<store, store0, conns, nextId, load>>

\* execute_query: sqlite3.connect(db_path)
Connect(s) ==
    /\ slot[s].pc = "connect"
    /\ IF store.reachable
       THEN LET id == NewConnection(nextId)
            IN /\ conns' = [i \in DOMAIN conns \cup {id} |->
                               IF i = id
                               THEN [open |-> TRUE, cursor |-> FALSE,
                                     view |-> store.tables]
                               ELSE conns[i]]
               /\ nextId' = nextId + 1
               /\ slot' = [slot EXCEPT ![s].conn = id, ![s].pc = "cursor"]
       ELSE /\ slot' = [slot EXCEPT
                           ![s].out = Raise("OperationalError",
                                            <<"unable to open database file">>),
                           ![s].pc = "return"]
            /\ UNCHANGED <<conns, nextId>>
    /\ UNCHANGED <<store, store0, calls, load>>

\* execute_query: conn.cursor()
OpenCursor(s) ==
    /\ slot[s].pc = "cursor"
    /\ IF conns[slot[s].conn].open
       THEN /\ conns' = [conns EXCEPT ![slot[s].conn].cursor = TRUE]
            /\ slot' = [slot EXCEPT ![s].pc = "execute"]
       ELSE /\ slot' = [slot EXCEPT
                           ![s].out = Raise("ProgrammingError",
                                     <<"Cannot operate on a closed database.">>),
                           ![s].pc = "closeconn"]
            /\ UNCHANGED conns
    /\ UNCHANGED <<store, store0, nextId, calls, load>>

\* execute_query: cursor.execute(query) and cursor.fetchall()
Execute(s) ==
    /\ slot[s].pc = "execute"
    /\ IF conns[slot[s].conn].open
       THEN LET r == CursorExecute(slot[s].sql, store.tables)
            IN /\ conns' = [conns EXCEPT ![slot[s].conn].view = r.view]
               /\ slot' = [slot EXCEPT ![s].out = r.out,
                                       ![s].execs = @ + 1,
                                       ![s].pc = AfterExecute(r.out)]
       ELSE LET e == Raise("ProgrammingError",
                           <<"Cannot operate on a closed database.">>)
            IN /\ slot' = [slot EXCEPT ![s].out = e,
                                       ![s].pc = AfterExecute(e)]
               /\ UNCHANGED conns
    /\ UNCHANGED <<store, store0, nextId, calls, load>>

\* execute_query: leaving "with closing(conn.cursor())"
CloseCursor(s) ==
    /\ slot[s].pc = "closecur"
    /\ conns' = [conns EXCEPT ![slot[s].conn].cursor = FALSE]
    /\ slot' = [slot EXCEPT ![s].pc = "closeconn"]
    /\ UNCHANGED <<store, store0, nextId, calls, load>>

\* execute_query: leaving "with closing(sqlite3.connect(db_path))"
CloseConn(s) ==
    /\ slot[s].pc = "closeconn"
    /\ store' = ConnectionClose(store, conns[slot[s].conn])
    /\ conns' = [conns EXCEPT ![slot[s].conn].open = FALSE]
    /\ slot' = [slot EXCEPT ![s].pc = "return"]
    /\ UNCHANGED <<store0, nextId, calls, load>>

\* execute_query returns or re-raises; the tool builds its return value
Return(s) ==
    /\ slot[s].pc = "return"
    /\ slot' = [slot EXCEPT ![s] =
                   IF slot[s].out.kind = "exc" /\ ~ToolCatches(slot[s].out.exc)
                   THEN [@ EXCEPT !.pc = "raised"]
                   ELSE [@ EXCEPT !.pc = "returned",
                                  !.env = ToolEnvelope(slot[s].op, slot[s].arg,
                                                       slot[s].out)]]
    /\ UNCHANGED <<store, store0, conns, nextId, calls, load>>

Init ==
    /\ store \in Stores
    /\ store0 = store
    /\ conns = [i \in {} |-> [open |-> FALSE, cursor |-> FALSE, view |-> NoTables]]
    /\ nextId = 1
    /\ calls = 0
    /\ slot = [s \in Slots |-> IdleCall]
    /\ load = NotLoading

Next ==
    \E s \in Slots :
        \/ ListTables(s)
        \/ \E n \in TableNames : DescribeTable(s, n)
        \/ \E q \in Queries : ExecuteSelectQuery(s, q)
        \/ Connect(s)
        \/ OpenCursor(s)
        \/ Execute(s)
        \/ CloseCursor(s)
        \/ CloseConn(s)
        \/ Return(s)

Spec == Init /\ [][Next]_vars

\* ------------------------------------------------------------- the loader
CreateHead == "CREATE TABLE electric_vehicle_population ("
InsertHead == "INSERT INTO electric_vehicle_population VALUES ("

\* f'[{h}] TEXT'
ColumnSql(h) == <<"[">> \o h \o <<"]"," ","T","E","X","T">>
\* ', '.join(f'[{h}] TEXT' for h in headers)
ColumnsSql(headers) ==
    Join([i \in 1..Len(headers) |-> ColumnSql(headers[i])], <<",", " ">>)
CreateSql(headers) == <<CreateHead>> \o ColumnsSql(headers) \o <<")">>
\* ', '.join('?' * len(headers))
Placeholders(headers) ==
    Join([i \in 1..Len(headers) |-> <<"?">>], <<",", " ">>)
InsertSql(headers) == <<InsertHead>> \o Placeholders(headers) \o <<")">>

\* SQLite reading a list of "[name] TEXT" column definitions: the names,
\* or a syntax error.  A bracketed name ends at the first "]".
RECURSIVE ParseColumnDefs(_)
ParseColumnDefs(t) ==
    LET bad == [ok |-> FALSE, cols |-> <<>>]
        close == IndexOf(t, "]")
        after == Drop(t, close)
        more == Drop(after, Len(<<"]"," ","T","E","X","T">>) - 1)
    IN IF t = <<>> \/ Head(t) # "[" \/ close = 0 THEN bad
       ELSE IF ~StartsWith(after, Tail(<<"]"," ","T","E","X","T">>)) THEN bad
       ELSE IF more = <<>> THEN [ok |-> TRUE, cols |-> <<SubSeq(t, 2, close - 1)>>]
       ELSE IF ~StartsWith(more, <<",", " ">>) THEN bad
       ELSE LET r == ParseColumnDefs(Drop(more, 2))
            IN IF r.ok
               THEN [ok |-> TRUE, cols |-> <<SubSeq(t, 2, close - 1)>> \o r.cols]
               ELSE bad

\* conn.execute(CREATE TABLE ...): the columns of the new table, or the error
CreateTableResult(sql) ==
    LET defs == ParseColumnDefs(SubSeq(sql, 2, Len(sql) - 1))
    IN IF ~defs.ok THEN [exc |-> "OperationalError", cols |-> <<>>]
       ELSE IF \E i, j \in 1..Len(defs.cols) :
                   i # j /\ Upper(defs.cols[i]) = Upper(defs.cols[j])
       THEN [exc |-> "OperationalError", cols |-> <<>>]
       ELSE [exc |-> "", cols |-> defs.cols]

\* number of "?" parameters of a statement
ParameterCount(sql) == Cardinality({i \in 1..Len(sql) : sql[i] = "?"})

SwallowLoaderFault(l, exc) == [l EXCEPT !.pc = "done", !.exc = exc]
\* load_database catches nothing: an exception leaves it and reaches the caller
LoaderFault(l, exc) == [l EXCEPT !.pc = "raised", !.exc = exc]

HeaderNames ==
    {<<"a">>,
     <<"b">>,
     <<>>,
     <<"a","]">>,
     <<"a","]"," ","T","E","X","T",","," ","[","b">>}
Cell == <<"1">>

SeqsUpTo(S, n) == UNION {[1..k -> S] : k \in 0..n}

\* The CSV file as csv.reader yields it: a list of records, the header first.
CsvFiles ==
    {[readable |-> FALSE, lines |-> <<>>], [readable |-> TRUE, lines |-> <<>>]}
    \cup {[readable |-> TRUE, lines |-> <<h>> \o rs] :
            h \in SeqsUpTo(HeaderNames, MaxWidth),
            rs \in SeqsUpTo({[i \in 1..w |-> Cell] : w \in 0..MaxWidth}, MaxLines)}

\* load_database: Path(csv_path), sqlite3.connect(":memory:"), open(csv_path)
OpenCsv ==
    /\ load.pc = "start"
    /\ load' = IF load.csv.readable THEN [load EXCEPT !.pc = "header"]
               ELSE LoaderFault(load, "OSError")
    /\ UNCHANGED <<store, store0, conns, nextId, calls, slot>>

\* headers = next(reader)
ReadHeader ==
    /\ load.pc = "header"
    /\ load' = IF load.csv.lines = <<>> THEN LoaderFault(load, "StopIteration")
               ELSE [load EXCEPT !.pc = "create", !.headers = load.csv.lines[1],
                                 !.next = 2]
    /\ UNCHANGED <<store, store0, conns, nextId, calls, slot>>

\* conn.execute(f"CREATE TABLE electric_vehicle_population ({columns_sql})")
CreateTable ==
    /\ load.pc = "create"
    /\ LET r == CreateTableResult(CreateSql(load.headers))
       IN load' = IF r.exc # "" THEN LoaderFault(load, r.exc)
                  ELSE [load EXCEPT !.pc = "prepare", !.cols = r.cols]
    /\ UNCHANGED <<store, store0, conns, nextId, calls, slot>>

\* conn.executemany(insert_sql, reader): the INSERT is compiled first
PrepareInsert ==
    /\ load.pc = "prepare"
    /\ load' = IF ParameterCount(InsertSql(load.headers)) # Len(load.cols)
               THEN LoaderFault(load, "OperationalError")
               ELSE [load EXCEPT !.pc = "insert"]
    /\ UNCHANGED <<store, store0, conns, nextId, calls, slot>>

\* conn.executemany(insert_sql, reader): one record of the reader is bound
InsertRow ==
    /\ load.pc = "insert"
    /\ load.next <= Len(load.csv.lines)
    /\ LET row == load.csv.lines[load.next]
       IN load' = IF Len(row) # ParameterCount(InsertSql(load.headers))
                  THEN LoaderFault(load, "ProgrammingError")
                  ELSE [load EXCEPT !.rows = Append(@, row), !.next = @ + 1]
    /\ UNCHANGED <<store, store0, conns, nextId, calls, slot>>

\* the reader is exhausted: return conn
ReturnConn ==
    /\ load.pc = "insert"
    /\ load.next > Len(load.csv.lines)
    /\ load' = [load EXCEPT !.pc = "done"]
    /\ UNCHANGED <<store, store0, conns, nextId, calls, slot>>

\* the caller runs SELECT count(*) on the connection returned
CountRows ==
    /\ load.pc = "done"
    /\ load' = [load EXCEPT !.pc = "counted", !.count = Len(load.rows)]
    /\ UNCHANGED <<store, store0, conns, nextId, calls, slot>>

LoadInit ==
    /\ store = [reachable |-> FALSE, tables |-> NoTables]
    /\ store0 = store
    /\ conns = [i \in {} |-> [open |-> FALSE, cursor |-> FALSE, view |-> NoTables]]
    /\ nextId = 1
    /\ calls = 0
    /\ slot = [s \in Slots |-> IdleCall]
    /\ \E f \in CsvFiles : load = [NotLoading EXCEPT !.pc = "start", !.csv = f]

LoadNext ==
    \/ OpenCsv
    \/ ReadHeader
    \/ CreateTable
    \/ PrepareInsert
    \/ InsertRow
    \/ ReturnConn
    \/ CountRows

LoadSpec == LoadInit /\ [][LoadNext]_vars

\* ------------------------------------------------------------- claims
Finished(s) == slot[s].pc \in {"returned", "raised"}

\* C1: every value a tool returns is an envelope whose status is "success"
\* or "error"; an error envelope carries error_message and nothing else, a
\* success envelope carries payload fields and no error_message; and every
\* call ends by returning such a value.
EnvelopeShape ==
    \A s \in Slots :
        /\ slot[s].pc # "raised"
        /\ slot[s].pc = "returned" =>
              LET e == slot[s].env
              IN /\ e.status \in {"success", "error"}
                 /\ e.status = "error" =>
                        DOMAIN e = {"status", "error_message"}
                 /\ e.status = "success" =>
                        /\ "error_message" \notin DOMAIN e
                        /\ DOMAIN e \ {"status"} # {}

\* C1 witness: one call returned an error envelope after a store failure
\* while another returned a success envelope.
EnvelopeShapeWitness ==
    \E s, t \in Slots :
        /\ slot[s].pc = "returned" /\ slot[s].out.kind = "exc"
        /\ slot[s].env.status = "error"
        /\ slot[t].pc = "returned" /\ slot[t].env.status = "success"

\* C2: when execute_query raised (the connection could not be opened, or
\* the statement failed), the tool still returns, and what it returns is an
\* error envelope whose error_message contains the store's message.
StoreFailureIsReported ==
    \A s \in Slots :
        /\ slot[s].pc # "raised"
        /\ (slot[s].pc = "returned" /\ slot[s].out.kind = "exc") =>
              /\ slot[s].env.status = "error"
              /\ slot[s].out.msg # <<>>
              /\ Contains(slot[s].env.error_message, slot[s].out.msg)

\* C2 witness: a query of a missing table and a query refused by sqlite3 for
\* holding two statements have both been answered.
StoreFailureWitness ==
    \E s, t \in Slots :
        /\ slot[s].pc = "returned" /\ slot[s].out.exc = "OperationalError"
        /\ Contains(slot[s].out.msg, <<"no such table: ">>)
        /\ slot[t].pc = "returned" /\ slot[t].out.exc = "ProgrammingError"

BeginsWithSelect(text) ==
    LET body == Strip(text)
    IN Len(body) >= 6 /\ Upper(SubSeq(body, 1, 6)) = <<"S","E","L","E","C","T">>

\* C3: a call of execute_select_query whose text does not begin with SELECT
\* (trimmed, any case) has returned the only-SELECT error envelope, has no
\* connection and has executed nothing.
OnlySelectReachesStore ==
    \A s \in Slots :
        (slot[s].op = "execute_select_query" /\ ~BeginsWithSelect(slot[s].arg)) =>
            /\ slot[s].pc = "returned"
            /\ slot[s].env = OnlySelectEnvelope
            /\ slot[s].conn = 0
            /\ slot[s].execs = 0
            /\ slot[s].sql = <<>>

\* C3 witness: a DELETE was rejected while a lower-case, padded select was
\* executed against the store.
OnlySelectWitness ==
    \E s, t \in Slots :
        /\ slot[s].op = "execute_select_query" /\ ~BeginsWithSelect(slot[s].arg)
        /\ slot[s].pc = "returned"
        /\ slot[t].op = "execute_select_query" /\ slot[t].execs = 1
        /\ slot[t].arg # Strip(slot[t].arg)
        /\ Upper(slot[t].arg) # slot[t].arg

\* C4: describe_table of a name that is no table of the store returns the
\* "does not exist" error envelope, found by an empty metadata result and not
\* by an exception; of a table, a success envelope with one column
\* definition per column, in table order.
DescribeMissingIsNotFound ==
    \A s \in Slots :
        (Finished(s) /\ slot[s].op = "describe_table" /\ store.reachable) =>
            LET hit == Resolve(store.tables, slot[s].arg)
                tbl == store.tables[CHOOSE n \in hit : TRUE]
            IN /\ slot[s].pc = "returned"
               /\ IF hit = {}
                  THEN /\ slot[s].out = Rows(<<>>)
                       /\ slot[s].env =
                            [status |-> "error",
                             error_message |-> <<"Table '">> \o slot[s].arg
                                               \o <<"' does not exist">>]
                  ELSE /\ slot[s].env.status = "success"
                       /\ Len(slot[s].env.columns) = Len(tbl.cols)
                       /\ \A i \in 1..Len(tbl.cols) :
                              slot[s].env.columns[i].name = tbl.cols[i].name

InProgress(s) == slot[s].pc \in {"cursor", "execute", "closecur", "closeconn"}

\* C5: when a call has returned, the connection it opened and its cursor
\* are closed; a connection or cursor is open only while the call that
\* opened it is inside execute_query.
ConnectionsReleased ==
    /\ \A s \in Slots :
          (Finished(s) /\ slot[s].conn # 0) =>
              /\ ~conns[slot[s].conn].open
              /\ ~conns[slot[s].conn].cursor
    /\ \A c \in DOMAIN conns :
          (conns[c].open \/ conns[c].cursor) =>
              \E s \in Slots : slot[s].conn = c /\ InProgress(s)

\* C5 witness: a call whose statement failed after its connection and cursor
\* were opened has returned, and so has a call that succeeded.
ConnectionsReleasedWitness ==
    \E s, t \in Slots :
        /\ slot[s].pc = "returned" /\ slot[s].conn # 0
        /\ slot[s].out.kind = "exc"
        /\ slot[t].pc = "returned" /\ slot[t].conn # 0
        /\ slot[t].out.kind = "rows"

\* C8: the SQL text describe_table sends is the same for any two table_name
\* arguments.
DescribeSqlIsFixed ==
    \A s, t \in Slots :
        (slot[s].op = "describe_table" /\ slot[t].op = "describe_table") =>
            slot[s].sql = slot[t].sql

\* What a tool returns when it is the only call running against store st.
RunAlone(op, arg, st) ==
    IF op = "execute_select_query" /\ ~BeginsWithSelect(arg)
    THEN OnlySelectEnvelope
    ELSE LET sql == CASE op = "list_tables" -> ListTablesSql
                      [] op = "describe_table" -> DescribeSql(arg)
                      [] OTHER -> arg
             out == IF st.reachable THEN CursorExecute(sql, st.tables).out
                    ELSE Raise("OperationalError",
                               <<"unable to open database file">>)
         IN ToolEnvelope(op, arg, out)

\* C9: in every interleaving no two calls hold the same connection, and the
\* envelope a call returns is the one it returns when run alone against the
\* same store.
CallsAreIsolated ==
    /\ \A s, t \in Slots :
          (s # t /\ slot[s].conn # 0 /\ slot[t].conn # 0) =>
              slot[s].conn # slot[t].conn
    /\ \A s \in Slots :
          /\ slot[s].pc # "raised"
          /\ slot[s].pc = "returned" =>
                slot[s].env = RunAlone(slot[s].op, slot[s].arg, store)

\* C9 witness: a call connected after another, and returned while the
\* other was still between its execute and its close.
CallsAreIsolatedWitness ==
    \E s, t \in Slots :
        /\ slot[t].pc = "closecur" /\ slot[t].conn # 0
        /\ slot[s].pc = "returned" /\ slot[s].conn > slot[t].conn
        /\ slot[s].env.status = "success"

\* C10: the tables, schemas and rows of the store are those it started
\* with; no connection holds a change to them; a call executes at most one
\* statement, and a rejected call none.
ServiceIsReadOnly ==
    /\ store = store0
    /\ \A c \in DOMAIN conns : conns[c].view = store0.tables
    /\ \A s \in Slots :
          /\ slot[s].execs <= 1
          /\ (slot[s].pc = "returned" /\ slot[s].env = OnlySelectEnvelope) =>
                slot[s].execs = 0

\* C10 witness: over a table that has rows, a DELETE was rejected and a
\* failing query was executed once.
ServiceIsReadOnlyWitness ==
    \E s, t \in Slots :
        /\ \E n \in DOMAIN store.tables : store.tables[n].rows # <<>>
        /\ slot[s].pc = "returned" /\ slot[s].env = OnlySelectEnvelope
        /\ Upper(Strip(slot[s].arg)) = kwDELETE \o <<" ">> \o kwFROM \o <<" ", "T">>
        /\ slot[t].pc = "returned" /\ slot[t].out.kind = "exc"
        /\ slot[t].execs = 1

HasDuplicate(h) == \E i, j \in 1..Len(h) : i # j /\ h[i] = h[j]
LoadEnded == load.pc \in {"done", "counted", "raised"}

\* C6: for a readable CSV whose header is not empty and has no duplicate
\* names and whose N records all have the header's width W, the load ends
\* with a table of W columns named as the header, in order, and N rows, and
\* counting the rows yields N.
LoadKeepsShape ==
    LET lines == load.csv.lines
        valid == /\ load.csv.readable
                 /\ lines # <<>> /\ lines[1] # <<>>
                 /\ ~HasDuplicate(lines[1])
                 /\ \A i \in 2..Len(lines) : Len(lines[i]) = Len(lines[1])
    IN (LoadEnded /\ valid) =>
          /\ load.pc # "raised"
          /\ load.cols = lines[1]
          /\ Len(load.rows) = Len(lines) - 1
          /\ load.pc = "counted" => load.count = Len(lines) - 1

====
